---- MODULE Spec2Model ----
(***************************************************************************)
(* Model of main.py: bless_df (column classification and normalisation of  *)
(* one table), load_files (CSV/Excel loading with encoding fallback) and   *)
(* main (the batch driver).                                                *)
(*                                                                         *)
(* Text is modelled as a sequence of one-character strings, so that        *)
(* str.lower, str.capitalize, str.isdigit, the regular expressions and the *)
(* substring tests of the source are computed character by character.      *)
(* pandas semantics are those of pandas 1.x/2.x, which the source targets  *)
(* (it uses pd.NA): DataFrame.astype(str) renders a missing value as the   *)
(* text "nan", and Series.__getitem__ with a boolean Series whose index    *)
(* does not cover the indexed Series raises IndexingError.                 *)
(***************************************************************************)
EXTENDS Integers, Sequences, FiniteSets, TLC

VARIABLES
    src,                \* bless_df: the table passed as df (the caller's RawTable)
    df,                 \* bless_df: local df after line 115
    final_df,           \* bless_df: the seven target columns of final_df
    extra,              \* bless_df: pass-through columns added to final_df (line 163)
    possible_uid_cols,  \* bless_df: dict column -> valid_ids.sum(), in insertion order
    best_uid_col,       \* bless_df: index of the column chosen at line 140, 0 if none
    pc,                 \* bless_df: control point
    i,                  \* bless_df: position of the running for-loop in df.columns
    err,                \* bless_df: the exception raised inside the try block
    at_raise,           \* history: final_df at the moment the exception was raised
    result,             \* bless_df: the returned table
    folder,             \* main: the entries of the to_clean folder, in glob order
    mpc,                \* main/load_files: control point
    file_path,          \* load_files: position of the for-loop over folder.glob('*')
    encoding,           \* load_files: position of the for-loop over encodings_to_try
    attempts,           \* history: per entry, the read attempts made and their outcomes
    data_dict,          \* load_files: the loaded tables, in insertion order
    load_log,           \* load_files: per entry, the logger.error call made for it
    filename,           \* main: position of the for-loop over data_dict.items()
    normalized,         \* history: per entry, how its bless_df call ended
    write_outcome,      \* history: per entry, how its to_csv call ended
    written,            \* the entries whose cleaned file is on disk
    makedirs_ok,        \* history: whether os.makedirs succeeded
    finished            \* main: "Program finished" has been logged

bvars == <<src, df, final_df, extra, possible_uid_cols, best_uid_col, pc, i, err,
           at_raise, result>>

mvars == <<folder, mpc, file_path, encoding, attempts, data_dict, load_log, filename, normalized,
           write_outcome, written, makedirs_ok, finished>>

vars == <<bvars, mvars>>

(***************************************************************************)
(* Characters and text                                                     *)
(***************************************************************************)
DigitChars == <<"0", "1", "2", "3", "4", "5", "6", "7", "8", "9">>

ASCIIDigits == {DigitChars[k] : k \in 1..Len(DigitChars)}

\* U+00B2 SUPERSCRIPT TWO: str.isdigit() is True for it, the pattern \d does
\* not match it (its category is No, not Nd).
Sup2 == "sup2"

UpperChars == <<"A", "B", "C", "D", "E", "F", "G", "H", "I", "J", "K", "L", "M",
                "N", "O", "P", "Q", "R", "S", "T", "U", "V", "W", "X", "Y", "Z">>

LowerChars == <<"a", "b", "c", "d", "e", "f", "g", "h", "i", "j", "k", "l", "m",
                "n", "o", "p", "q", "r", "s", "t", "u", "v", "w", "x", "y", "z">>

Whitespace == {" "}

lower_char(c) ==
    IF \E k \in 1..Len(UpperChars) : UpperChars[k] = c
    THEN LowerChars[CHOOSE k \in 1..Len(UpperChars) : UpperChars[k] = c]
    ELSE c

upper_char(c) ==
    IF \E k \in 1..Len(LowerChars) : LowerChars[k] = c
    THEN UpperChars[CHOOSE k \in 1..Len(LowerChars) : LowerChars[k] = c]
    ELSE c

\* str.lower()
lower(s) == [k \in 1..Len(s) |-> lower_char(s[k])]

\* str.capitalize(): first character upper-cased, the rest lower-cased
capitalize(s) ==
    [k \in 1..Len(s) |-> IF k = 1 THEN upper_char(s[k]) ELSE lower_char(s[k])]

\* str.isdigit(): non-empty and every character is a digit character
isdigit(s) == Len(s) > 0 /\ \A k \in 1..Len(s) : s[k] \in ASCIIDigits \cup {Sup2}

\* uid_regex.match(x) with uid_regex = re.compile(r'^\d+$')
uid_regex(s) == Len(s) > 0 /\ \A k \in 1..Len(s) : s[k] \in ASCIIDigits

\* the Python test `sub in s`
contains(sub, s) ==
    \E k \in 0..(Len(s) - Len(sub)) : SubSeq(s, k + 1, k + Len(sub)) = sub

\* str.strip()
strip(s) ==
    LET keep == {k \in 1..Len(s) : s[k] \notin Whitespace}
    IN  IF keep = {} THEN <<>>
        ELSE SubSeq(s, CHOOSE k \in keep : \A m \in keep : k <= m,
                       CHOOSE k \in keep : \A m \in keep : k >= m)

\* x.split(',')[0]
split_comma_first(s) ==
    LET at == {k \in 1..Len(s) : s[k] = ","}
    IN  IF at = {} THEN s
        ELSE SubSeq(s, 1, (CHOOSE k \in at : \A m \in at : k <= m) - 1)

\* re.sub(r'\D', '', str(x)): every character that \d does not match is removed
sub_nondigit(s) == SelectSeq(s, LAMBDA c : c \in ASCIIDigits)

\* decimal text of a number below 100
Digs(n) ==
    IF n < 10 THEN <<DigitChars[n + 1]>>
    ELSE <<DigitChars[(n \div 10) + 1], DigitChars[(n % 10) + 1]>>

(***************************************************************************)
(* Cells and tables                                                        *)
(***************************************************************************)
\* a missing cell of the source table (float NaN), and pd.NA
NaN == <<"<NaN>">>

NA == <<"<NA>">>

isna(cell) == cell \in {NaN, NA}

\* str(x) as astype(str) applies it to a cell: NaN becomes the text "nan"
str_of(cell) == IF cell = NaN THEN <<"n", "a", "n">> ELSE cell

NumRows(t) == IF Len(t) = 0 THEN 0 ELSE Len(t[1].cells)

\* DataFrame.astype(str)
astype_str(t) ==
    [c \in 1..Len(t) |->
        [name |-> t[c].name,
         cells |-> [r \in 1..Len(t[c].cells) |-> str_of(t[c].cells[r])]]]

\* DataFrame.dropna(how='all').reset_index(drop=True)
dropna_all(t) ==
    LET rows == [r \in 1..NumRows(t) |-> r]
        kept == SelectSeq(rows, LAMBDA r : \E c \in 1..Len(t) : ~isna(t[c].cells[r]))
    IN  [c \in 1..Len(t) |->
            [name |-> t[c].name,
             cells |-> [k \in 1..Len(kept) |-> t[c].cells[kept[k]]]]]

TargetFields ==
    {"Student UID", "First Name", "Last Name", "Grade", "Teacher", "Email", "Phone"}

\* final_df.reindex(df.index, fill_value=pd.NA) on the empty seven-column frame
reindex(fdf, n) == [f \in DOMAIN fdf |-> [r \in 1..n |-> NA]]

\* final_df.fillna('')
fillna(fdf) ==
    [f \in DOMAIN fdf |->
        [r \in 1..Len(fdf[f]) |-> IF isna(fdf[f][r]) THEN <<>> ELSE fdf[f][r]]]

fillna_extra(ex) ==
    [k \in 1..Len(ex) |->
        [name |-> ex[k].name,
         cells |-> [r \in 1..Len(ex[k].cells) |->
                      IF isna(ex[k].cells[r]) THEN <<>> ELSE ex[k].cells[r]]]]

(***************************************************************************)
(* The input tables: column labels and column contents                     *)
(***************************************************************************)
\* number of rows of every input table
NRows == 7

\* greatest number of columns of an input table
MaxCols == 3

name_ID == <<"I", "D">>

name_Num == <<"N", "u", "m">>

name_Phone == <<"P", "h", "o", "n", "e">>

name_Site == <<"S", "i", "t", "e">>

name_Grade == <<"G", "r", "a", "d", "e">>

name_HomePhone == <<"H", "o", "m", "e", " ", "P", "h", "o", "n", "e">>

name_FirstGradeTeacher == <<"F", "i", "r", "s", "t", " ", "G", "r", "a", "d", "e", " ", "T", "e", "a", "c", "h", "e", "r">>

name_EMAIL == <<"E", "M", "A", "I", "L">>

name_StudentName == <<"S", "t", "u", "d", "e", "n", "t", " ", "N", "a", "m", "e">>

name_lastname == <<"l", "a", "s", "t", " ", "n", "a", "m", "e">>

\* The cell of row r of a column of the given kind.
\*   Distinct  "11", "12", ...: all digits, all different
\*   SupDigit  as Distinct, but row 2 is the single character U+00B2
\*   Five      all digits, exactly five different values
\*   Mixed     "K" in row 1, digits below
\*   Text      names: "Doe, John", "X", " lee ,a", "mcK", ...
\*   Missing   "a@x", with row 3 missing
Cell(kind, r) ==
    CASE kind = "Distinct" -> Digs(10 + r)
      [] kind = "SupDigit" -> IF r = 2 THEN <<Sup2>> ELSE Digs(20 + r)
      [] kind = "Five"     -> Digs(30 + (r % 5))
      [] kind = "Mixed"    -> IF r = 1 THEN <<"K">> ELSE Digs(r)
      [] kind = "Text"     -> IF r = 1 THEN <<"D", "o", "e", ",", " ", "J", "o", "h", "n">>
                              ELSE IF r = 2 THEN <<"X">>
                              ELSE IF r = 3 THEN <<" ", "l", "e", "e", " ", ",", "a">>
                              ELSE <<"m", "c", "K">>
      [] kind = "Missing"  -> IF r = 3 THEN NaN ELSE <<"a", "@", "x">>

Catalogue ==
    << [name |-> name_ID,                kind |-> "Distinct"],
       [name |-> name_Num,               kind |-> "SupDigit"],
       [name |-> name_Phone,             kind |-> "Distinct"],
       [name |-> name_Site,              kind |-> "Distinct"],
       [name |-> name_Grade,             kind |-> "Five"],
       [name |-> name_Grade,             kind |-> "Mixed"],
       [name |-> name_HomePhone,         kind |-> "Text"],
       [name |-> name_FirstGradeTeacher, kind |-> "Text"],
       [name |-> name_EMAIL,             kind |-> "Missing"],
       [name |-> name_StudentName,       kind |-> "Text"],
       [name |-> name_lastname,          kind |-> "Missing"] >>

MkColumn(entry) ==
    [name |-> entry.name, cells |-> [r \in 1..NRows |-> Cell(entry.kind, r)]]

\* pd.DataFrame(columns=['Student UID', ..., 'Phone']): seven columns, no row
EmptyFrame == [f \in TargetFields |-> <<>>]

NoTable == [fields |-> EmptyFrame, extra |-> <<>>]

NoRaise == [fields |-> EmptyFrame, extra |-> <<>>, where |-> "none"]

(***************************************************************************)
(* bless_df                                                                *)
(***************************************************************************)
excluded_columns == {<<"s", "i", "t", "e">>, <<"l", "o", "c", "a", "t", "i", "o", "n">>, <<"b", "u", "i", "l", "d", "i", "n", "g">>}

kw_grade == <<"g", "r", "a", "d", "e">>

kw_last == <<"l", "a", "s", "t">>

kw_first == <<"f", "i", "r", "s", "t">>

kw_email == <<"e", "m", "a", "i", "l">>

kw_home == <<"h", "o", "m", "e">>

kw_teacher == <<"t", "e", "a", "c", "h", "e", "r">>

kw_phone == <<"p", "h", "o", "n", "e">>

\* `unique_values > 5`
UniqueThreshold == 5

\* mutant: the phone test is made before the home/teacher test
Classify_phone_first(col_lower) ==
    IF contains(kw_grade, col_lower) THEN "Grade"
    ELSE IF contains(kw_last, col_lower) THEN "Last Name"
    ELSE IF contains(kw_first, col_lower) THEN "First Name"
    ELSE IF contains(kw_email, col_lower) THEN "Email"
    ELSE IF contains(kw_phone, col_lower) THEN "Phone"
    ELSE IF contains(kw_home, col_lower) \/ contains(kw_teacher, col_lower) THEN "Teacher"
    ELSE IF col_lower \in excluded_columns THEN "excluded"
    ELSE "none"

\* the if/elif chain of the second loop: the branch taken for a column label
Classify(col_lower) ==
    IF contains(kw_grade, col_lower) THEN "Grade"
    ELSE IF contains(kw_last, col_lower) THEN "Last Name"
    ELSE IF contains(kw_first, col_lower) THEN "First Name"
    ELSE IF contains(kw_email, col_lower) THEN "Email"
    ELSE IF contains(kw_home, col_lower) \/ contains(kw_teacher, col_lower) THEN "Teacher"
    ELSE IF contains(kw_phone, col_lower) THEN "Phone"
    ELSE IF col_lower \in excluded_columns THEN "excluded"
    ELSE "none"

\* the value each branch assigns: df[col], or df[col].apply(<the branch's lambda>)
FieldValue(target, cells) ==
    CASE target \in {"Grade", "Email", "excluded"} -> cells
      [] target \in {"Last Name", "First Name"} ->
            [r \in 1..Len(cells) |-> capitalize(cells[r])]
      [] target = "Teacher" ->
            [r \in 1..Len(cells) |->
                IF ~isna(cells[r]) THEN strip(split_comma_first(cells[r])) ELSE cells[r]]
      [] target = "Phone" ->
            [r \in 1..Len(cells) |-> sub_nondigit(str_of(cells[r]))]

\* mutant: a column already written is kept (the first matching column wins)
SetColumn_keep_first(fdf, f, cells) ==
    IF \A r \in 1..Len(fdf[f]) : fdf[f][r] = NA THEN [fdf EXCEPT ![f] = cells] ELSE fdf

\* final_df[f] = value: the whole column is replaced
SetColumn(fdf, f, cells) == [fdf EXCEPT ![f] = cells]

\* final_df[col] = df[col] for a pass-through column
SetExtra(ex, name, cells) ==
    IF \E k \in 1..Len(ex) : ex[k].name = name
    THEN [k \in 1..Len(ex) |-> IF ex[k].name = name
                                THEN [name |-> name, cells |-> cells] ELSE ex[k]]
    ELSE Append(ex, [name |-> name, cells |-> cells])

\* df[col] is a DataFrame, not a Series, when the label occurs more than once
Duplicated(t, name) == Cardinality({c \in 1..Len(t) : t[c].name = name}) > 1

\* numeric_values = df[col].apply(lambda x: x.isdigit()): the rows it selects
numeric_rows(cells) == {r \in 1..Len(cells) : isdigit(cells[r])}

\* valid_ids = df[col][numeric_values].apply(lambda x: bool(uid_regex.match(x))):
\* a boolean Series indexed by numeric_rows; the rows where it is True
valid_rows(cells) == {r \in numeric_rows(cells) : uid_regex(cells[r])}

\* df[col][valid_ids] at line 134. An empty valid_ids (object dtype) is no
\* boolean indexer and selects nothing; otherwise the mask is aligned with
\* df[col] and check_bool_indexer raises IndexingError ("Unalignable boolean
\* Series provided as indexer") unless its index covers every row of df[col].
Unalignable(cells) ==
    /\ numeric_rows(cells) # {}
    /\ numeric_rows(cells) # 1..Len(cells)

\* df[col][valid_ids].nunique()
unique_values(cells) == Cardinality({cells[r] : r \in valid_rows(cells)})

\* valid_ids.sum()
valid_sum(cells) == Cardinality(valid_rows(cells))

\* `valid_ids.sum() > 0 and unique_values > 5`
Qualifies(cells) == valid_sum(cells) > 0 /\ unique_values(cells) > UniqueThreshold

\* max(possible_uid_cols, key=possible_uid_cols.get): the first key, in
\* insertion order, whose value is the greatest
MaxKey(d) ==
    LET k == CHOOSE k \in 1..Len(d) :
                /\ \A m \in 1..Len(d) : d[m].n <= d[k].n
                /\ \A m \in 1..(k - 1) : d[m].n < d[k].n
    IN  d[k].col

\* mutant: the handler catches ValueError only
Catches_ValueErrorOnly(exc) == exc = "ValueError"

\* `except Exception`: every exception raised in the try block is an Exception
Catches(exc) == exc \in {"AttributeError", "IndexingError", "ValueError"}

\* the variables of the other operation, at rest
BlessIdle ==
    /\ src = <<>>
    /\ df = <<>>
    /\ final_df = EmptyFrame
    /\ extra = <<>>
    /\ possible_uid_cols = <<>>
    /\ best_uid_col = 0
    /\ pc = "idle"
    /\ i = 0
    /\ err = "none"
    /\ at_raise = NoRaise
    /\ result = NoTable

MainIdle ==
    /\ folder = <<>>
    /\ mpc = "idle"
    /\ file_path = 0
    /\ encoding = 0
    /\ attempts = <<>>
    /\ data_dict = <<>>
    /\ load_log = <<>>
    /\ filename = 0
    /\ normalized = <<>>
    /\ write_outcome = <<>>
    /\ written = {}
    /\ makedirs_ok = FALSE
    /\ finished = FALSE

InitBless ==
    /\ \E n \in 1..MaxCols :
         \E pick \in [1..n -> 1..Len(Catalogue)] :
            src = [c \in 1..n |-> MkColumn(Catalogue[pick[c]])]
    /\ df = <<>>
    /\ final_df = EmptyFrame
    /\ extra = <<>>
    /\ possible_uid_cols = <<>>
    /\ best_uid_col = 0
    /\ pc = "call"
    /\ i = 0
    /\ err = "none"
    /\ at_raise = NoRaise
    /\ result = NoTable
    /\ MainIdle

\* raise inside the try block: control passes to the except clause
Raise(exc) ==
    /\ err' = exc
    /\ at_raise' = [fields |-> final_df, extra |-> extra, where |-> pc]
    /\ pc' = "except"
    /\ UNCHANGED <<src, df, final_df, extra, possible_uid_cols, best_uid_col, i, result>>

\* lines 115-116
Prepare ==
    /\ UNCHANGED mvars
    /\ pc = "call"
    /\ df' = dropna_all(astype_str(src))
    /\ final_df' = reindex(final_df, NumRows(df'))
    /\ pc' = "uid_loop"
    /\ i' = 1
    /\ UNCHANGED <<src, extra, possible_uid_cols, best_uid_col, err, at_raise, result>>

\* one iteration of the first loop, lines 121-136
UidLoopStep ==
    /\ UNCHANGED mvars
    /\ pc = "uid_loop"
    /\ i <= Len(df)
    /\ LET col == df[i].name
           cells == df[i].cells
       IN  IF lower(col) \in excluded_columns
           THEN /\ i' = i + 1
                /\ UNCHANGED <<src, df, final_df, extra, possible_uid_cols,
                               best_uid_col, pc, err, at_raise, result>>
           ELSE IF Duplicated(df, col)
           THEN Raise("AttributeError")
           ELSE IF Unalignable(cells)
           THEN Raise("IndexingError")
           ELSE /\ possible_uid_cols' =
                      IF Qualifies(cells)
                      THEN Append(possible_uid_cols, [col |-> i, n |-> valid_sum(cells)])
                      ELSE possible_uid_cols
                /\ i' = i + 1
                /\ UNCHANGED <<src, df, final_df, extra, best_uid_col, pc, err,
                               at_raise, result>>

\* lines 138-144
UidPick ==
    /\ UNCHANGED mvars
    /\ pc = "uid_loop"
    /\ i > Len(df)
    /\ IF possible_uid_cols # <<>>
       THEN /\ best_uid_col' = MaxKey(possible_uid_cols)
            /\ final_df' = SetColumn(final_df, "Student UID", df[best_uid_col'].cells)
       ELSE UNCHANGED <<best_uid_col, final_df>>
    /\ pc' = "field_loop"
    /\ i' = 1
    /\ UNCHANGED <<src, df, extra, possible_uid_cols, err, at_raise, result>>

\* one iteration of the second loop, lines 147-163
FieldLoopStep ==
    /\ UNCHANGED mvars
    /\ pc = "field_loop"
    /\ i <= Len(df)
    /\ LET col == df[i].name
           cells == df[i].cells
           target == Classify(lower(col))
       IN  IF target = "none"
           THEN /\ i' = i + 1
                /\ UNCHANGED <<src, df, final_df, extra, possible_uid_cols,
                               best_uid_col, pc, err, at_raise, result>>
           ELSE IF target = "excluded"
           THEN IF Duplicated(df, col)
                THEN Raise("ValueError")
                ELSE /\ extra' = SetExtra(extra, col, FieldValue(target, cells))
                     /\ i' = i + 1
                     /\ UNCHANGED <<src, df, final_df, possible_uid_cols,
                                    best_uid_col, pc, err, at_raise, result>>
           ELSE /\ final_df' = SetColumn(final_df, target, FieldValue(target, cells))
                /\ i' = i + 1
                /\ UNCHANGED <<src, df, extra, possible_uid_cols, best_uid_col,
                               pc, err, at_raise, result>>

\* the second loop is exhausted, line 165
FieldLoopEnd ==
    /\ UNCHANGED mvars
    /\ pc = "field_loop"
    /\ i > Len(df)
    /\ pc' = "fillna"
    /\ UNCHANGED <<src, df, final_df, extra, possible_uid_cols, best_uid_col, i,
                   err, at_raise, result>>

\* lines 167-168
Except ==
    /\ UNCHANGED mvars
    /\ pc = "except"
    /\ pc' = IF Catches(err) THEN "fillna" ELSE "raised"
    /\ UNCHANGED <<src, df, final_df, extra, possible_uid_cols, best_uid_col, i,
                   err, at_raise, result>>

\* lines 170-172
Return ==
    /\ UNCHANGED mvars
    /\ pc = "fillna"
    /\ final_df' = fillna(final_df)
    /\ extra' = fillna_extra(extra)
    /\ result' = [fields |-> final_df', extra |-> extra']
    /\ pc' = "done"
    /\ UNCHANGED <<src, df, possible_uid_cols, best_uid_col, i, err, at_raise>>

NextBless ==
    \/ Prepare
    \/ UidLoopStep
    \/ UidPick
    \/ FieldLoopStep
    \/ FieldLoopEnd
    \/ Except
    \/ Return

SpecBless == InitBless /\ [][NextBless]_vars

(***************************************************************************)
(* Claims about bless_df                                                   *)
(***************************************************************************)
AllRows(cells, v) == \A r \in 1..Len(cells) : cells[r] = v

DistinctLabels(t) == \A c \in 1..Len(t) : ~Duplicated(t, t[c].name)

\* the rows of the source table that are not entirely missing
NonEmptyRows(t) == {r \in 1..NumRows(t) : \E c \in 1..Len(t) : ~isna(t[c].cells[r])}

\* C1: the returned table has as many rows as the source table has rows that
\* are not entirely missing (rows whose every cell is missing are dropped).
\* Stated for the calls in which no exception is raised.
C1_RowCount ==
    (pc = "done" /\ err = "none") =>
        \A f \in TargetFields : Len(result.fields[f]) = Cardinality(NonEmptyRows(src))

\* the UID candidates as the claim defines them: validCount = number of
\* all-digit cells, uniqueCount = number of distinct values among them
ClaimValidCount(cells) == Cardinality({r \in 1..Len(cells) : uid_regex(cells[r])})

ClaimUniqueCount(cells) ==
    Cardinality({cells[r] : r \in {x \in 1..Len(cells) : uid_regex(cells[x])}})

ClaimCandidates(t) ==
    {c \in 1..Len(t) :
        /\ lower(t[c].name) \notin excluded_columns
        /\ ClaimValidCount(t[c].cells) > 0
        /\ ClaimUniqueCount(t[c].cells) > UniqueThreshold}

ClaimBest(t) ==
    CHOOSE c \in ClaimCandidates(t) :
        \A d \in ClaimCandidates(t) :
            \/ ClaimValidCount(t[d].cells) < ClaimValidCount(t[c].cells)
            \/ ClaimValidCount(t[d].cells) = ClaimValidCount(t[c].cells) /\ c <= d

\* C2: Student UID is taken from the candidate (validCount > 0, uniqueCount > 5)
\* with the greatest validCount, the first one on a tie, and is empty in every
\* row when no column is a candidate. Stated for tables with distinct labels.
C2_UidSelection ==
    (pc = "done" /\ DistinctLabels(df)) =>
        IF ClaimCandidates(df) = {}
        THEN AllRows(result.fields["Student UID"], <<>>)
        ELSE result.fields["Student UID"] = df[ClaimBest(df)].cells

\* C3: the column chosen as the Student UID source is neither an excluded
\* column nor a column the second loop assigns to another target field.
C3_UidNotClaimed ==
    best_uid_col # 0 =>
        /\ lower(df[best_uid_col].name) \notin excluded_columns
        /\ Classify(lower(df[best_uid_col].name)) \notin TargetFields

\* the ordered rule list of the Field Matcher
RuleOrder ==
    << [kws |-> {kw_grade},            target |-> "Grade"],
       [kws |-> {kw_last},             target |-> "Last Name"],
       [kws |-> {kw_first},            target |-> "First Name"],
       [kws |-> {kw_email},            target |-> "Email"],
       [kws |-> {kw_home, kw_teacher}, target |-> "Teacher"],
       [kws |-> {kw_phone},            target |-> "Phone"] >>

RuleHits(name) ==
    {k \in 1..Len(RuleOrder) : \E kw \in RuleOrder[k].kws : contains(kw, lower(name))}

\* the earliest rule whose keyword the label contains, 0 if none
FirstRule(name) ==
    IF RuleHits(name) = {} THEN 0
    ELSE CHOOSE k \in RuleHits(name) : \A m \in RuleHits(name) : k <= m

\* C4: the iteration of the second loop for a column whose label contains
\* the keyword of some rule writes exactly one target field, the one of the
\* earliest such rule in the order grade, last, first, email, home/teacher,
\* phone (case-insensitively), and leaves every other target field as it was.
C4_FirstRuleOnly ==
    [][(pc = "field_loop" /\ i <= Len(df) /\ FirstRule(df[i].name) # 0) =>
          \A f \in TargetFields :
              final_df'[f] =
                  IF f = RuleOrder[FirstRule(df[i].name)].target
                  THEN FieldValue(f, df[i].cells)
                  ELSE final_df[f]]_vars

\* "Home Phone" has been processed: Teacher is written, Phone is untouched
C4_Witness ==
    /\ pc = "field_loop"
    /\ i = 2
    /\ df[1].name = name_HomePhone
    /\ Cardinality(RuleHits(df[1].name)) > 1
    /\ ~AllRows(final_df["Teacher"], NA)
    /\ AllRows(final_df["Phone"], NA)

NullTokens == {<<"n", "a", "n">>, <<"n", "a">>, <<"n", "o", "n", "e">>, <<"n", "u", "l", "l">>, <<"<na>">>}

\* C5: no cell of a target field of the returned table holds a null-marker
\* token ("nan", "NA", "None", ...): a missing source value is the empty text.
\* Stated for the calls in which no exception is raised.
C5_NoNullToken ==
    (pc = "done" /\ err = "none") =>
        \A f \in TargetFields :
            \A r \in 1..Len(result.fields[f]) :
                lower(result.fields[f][r]) \notin NullTokens

kw_student_name == <<"s", "t", "u", "d", "e", "n", "t", " ", "n", "a", "m", "e">>

remove_commas(s) == SelectSeq(s, LAMBDA c : c # ",")

\* runs of whitespace become one space
Collapse(s) ==
    LET idx == SelectSeq([k \in 1..Len(s) |-> k],
                         LAMBDA k : ~(k > 1 /\ s[k] \in Whitespace /\ s[k - 1] \in Whitespace))
    IN  [j \in 1..Len(idx) |-> s[idx[j]]]

FirstToken(s) ==
    LET t == strip(s)
        ws == {k \in 1..Len(t) : t[k] \in Whitespace}
    IN  IF ws = {} THEN t
        ELSE SubSeq(t, 1, (CHOOSE k \in ws : \A m \in ws : k <= m) - 1)

RestJoined(s) ==
    LET t == strip(s)
        ws == {k \in 1..Len(t) : t[k] \in Whitespace}
    IN  IF ws = {} THEN <<>>
        ELSE Collapse(strip(SubSeq(t, CHOOSE k \in ws : \A m \in ws : k <= m, Len(t))))

\* C6: a column whose label contains "student name" populates First Name with
\* the first whitespace-delimited token of each cell (commas removed) and Last
\* Name with the remaining tokens joined by one space. Stated for the calls in
\* which no exception is raised and the last column is the "student name" column.
C6_StudentNameSplit ==
    (/\ pc = "done"
     /\ err = "none"
     /\ contains(kw_student_name, lower(df[Len(df)].name))) =>
        LET cells == df[Len(df)].cells
        IN  /\ result.fields["First Name"] =
                  [r \in 1..Len(cells) |-> FirstToken(remove_commas(cells[r]))]
            /\ result.fields["Last Name"] =
                  [r \in 1..Len(cells) |-> RestJoined(remove_commas(cells[r]))]

\* the target fields assigned before the exception was raised
WrittenAtRaise ==
    IF at_raise.where = "uid_loop" THEN {}
    ELSE (IF best_uid_col # 0 THEN {"Student UID"} ELSE {})
         \cup ({Classify(lower(df[c].name)) : c \in 1..(i - 1)} \cap TargetFields)

\* C7: no exception leaves bless_df; after an exception inside the try block
\* the returned table is final_df as it stood when the exception was raised
\* (missing values filled with ''): the fields written before keep their
\* values, the fields not yet written are empty in every row.
C7_PartialOutput ==
    /\ pc # "raised"
    /\ (pc = "done" /\ err # "none") =>
          /\ result.fields = fillna(at_raise.fields)
          /\ \A f \in TargetFields \ WrittenAtRaise :
                /\ Len(result.fields[f]) = NumRows(df)
                /\ AllRows(result.fields[f], <<>>)

\* an exception in the second loop, after a field was written
C7_Witness ==
    /\ pc = "done"
    /\ err = "ValueError"
    /\ WrittenAtRaise # {}
    /\ \E f \in WrittenAtRaise : ~AllRows(result.fields[f], <<>>)
    /\ \E f \in TargetFields \ WrittenAtRaise :
          \E c \in 1..Len(df) : Classify(lower(df[c].name)) = f

\* the number of columns the second loop has processed
Processed ==
    IF pc \in {"call", "uid_loop"} \/ (err # "none" /\ at_raise.where = "uid_loop")
    THEN 0 ELSE i - 1

\* the last of the first k columns that the second loop assigns to field f, 0 if none
LastMatch(f, k) ==
    LET m == {c \in 1..k : Classify(lower(df[c].name)) = f}
    IN  IF m = {} THEN 0 ELSE CHOOSE c \in m : \A d \in m : d <= c

\* C9: at every point, each target field other than Student UID holds the
\* value derived from the last column processed so far that matches it, and
\* from that column alone; it is blank when no processed column matches it.
C9_LastColumnWins ==
    pc # "call" =>
        \A f \in TargetFields \ {"Student UID"} :
            LET m == LastMatch(f, Processed)
            IN  IF m = 0
                THEN AllRows(final_df[f], IF pc = "done" THEN <<>> ELSE NA)
                ELSE final_df[f] = FieldValue(f, df[m].cells)

\* two columns match the same field with different values; the later one is returned
C9_Witness ==
    /\ pc = "done"
    /\ err = "none"
    /\ \E c1, c2 \in 1..Len(df) :
          /\ c1 < c2
          /\ Classify(lower(df[c1].name)) = Classify(lower(df[c2].name))
          /\ Classify(lower(df[c1].name)) \in TargetFields
          /\ LastMatch(Classify(lower(df[c1].name)), Len(df)) = c2
          /\ FieldValue(Classify(lower(df[c1].name)), df[c1].cells)
                # FieldValue(Classify(lower(df[c1].name)), df[c2].cells)
          /\ result.fields[Classify(lower(df[c1].name))]
                = FieldValue(Classify(lower(df[c1].name)), df[c2].cells)

(***************************************************************************)
(* load_files and main                                                     *)
(***************************************************************************)
\* greatest number of entries of the to_clean folder
MaxFiles == 2

encodings_to_try == <<"utf-8", "latin1", "ISO-8859-1", "utf-16">>

ExcelSuffixes == {".xls", ".xlsx"}

\* a directory entry: a sub-directory, or a file with the given (lower-cased) suffix
Entries ==
    {[is_file |-> FALSE, ext |-> ""],
     [is_file |-> TRUE, ext |-> ".csv"],
     [is_file |-> TRUE, ext |-> ".xlsx"],
     [is_file |-> TRUE, ext |-> ".txt"]}

\* how pd.read_csv can end: a table, UnicodeDecodeError, or another exception
\* (ParserError, EmptyDataError, OSError, ...). Each call may end in any of
\* the three, whatever the encoding: the runs of the program are among the
\* runs of the model (the latin1 codec itself decodes every byte).
ReadOutcomes == {"ok", "UnicodeDecodeError", "Exception"}

\* data_dict[file_path.name] = df
PutTable(d, f, enc) ==
    IF \E j \in 1..Len(d) : d[j].file = f
    THEN [j \in 1..Len(d) |-> IF d[j].file = f THEN [file |-> f, encoding |-> enc] ELSE d[j]]
    ELSE Append(d, [file |-> f, encoding |-> enc])

\* mutant: no break after a successful read
AfterAttempt_no_break(outcome) ==
    IF outcome = "Exception" THEN "propagate" ELSE "continue"

\* the inner try of the encoding loop: break after a success, continue after
\* UnicodeDecodeError; any other exception leaves the loop for the outer handler
AfterAttempt(outcome) ==
    CASE outcome = "ok" -> "break"
      [] outcome = "UnicodeDecodeError" -> "continue"
      [] outcome = "Exception" -> "propagate"

\* mutant: to_csv is called outside any try block of the loop
AfterToCsv_uncaught(outcome) == IF outcome = "Exception" THEN "outer_except" ELSE "next"

\* the try/except around to_csv: the loop goes on to the next item either way
AfterToCsv(outcome) == "next"

InitMain ==
    /\ BlessIdle
    /\ \E n \in 0..MaxFiles :
         /\ folder \in [1..n -> Entries]
         /\ attempts = [f \in 1..n |-> <<>>]
         /\ load_log = [f \in 1..n |-> "none"]
         /\ normalized = [f \in 1..n |-> "none"]
         /\ write_outcome = [f \in 1..n |-> "none"]
    /\ mpc = "start"
    /\ file_path = 0
    /\ encoding = 0
    /\ data_dict = <<>>
    /\ filename = 0
    /\ written = {}
    /\ makedirs_ok = FALSE
    /\ finished = FALSE

\* main, lines 178-191: the folders exist, load_files is entered
MakeDirs ==
    /\ mpc = "start"
    /\ makedirs_ok' = TRUE
    /\ mpc' = "glob"
    /\ file_path' = 1
    /\ UNCHANGED <<folder, encoding, attempts, data_dict, load_log, filename,
                   normalized, write_outcome, written, finished>>
    /\ UNCHANGED bvars

\* main, lines 186-187 raise: the outer handler at line 215 logs the exception
MakeDirsFails ==
    /\ mpc = "start"
    /\ mpc' = "finish"
    /\ UNCHANGED <<folder, file_path, encoding, attempts, data_dict, load_log, filename,
                   normalized, write_outcome, written, makedirs_ok, finished>>
    /\ UNCHANGED bvars

\* load_files, lines 62-64 and 88-89: not a file, or an unsupported suffix
SkipEntry ==
    /\ mpc = "glob"
    /\ file_path <= Len(folder)
    /\ \/ ~folder[file_path].is_file
       \/ folder[file_path].ext \notin {".csv"} \cup ExcelSuffixes
    /\ file_path' = file_path + 1
    /\ UNCHANGED <<folder, mpc, encoding, attempts, data_dict, load_log, filename,
                   normalized, write_outcome, written, makedirs_ok, finished>>
    /\ UNCHANGED bvars

\* load_files, lines 70-71: a CSV file enters the encoding loop
EnterCsv ==
    /\ mpc = "glob"
    /\ file_path <= Len(folder)
    /\ folder[file_path].is_file
    /\ folder[file_path].ext = ".csv"
    /\ mpc' = "read_csv"
    /\ encoding' = 1
    /\ UNCHANGED <<folder, file_path, attempts, data_dict, load_log, filename,
                   normalized, write_outcome, written, makedirs_ok, finished>>
    /\ UNCHANGED bvars

\* load_files, lines 72-80 and 91-92: one iteration of the encoding loop
ReadCsv ==
    /\ mpc = "read_csv"
    /\ \E outcome \in ReadOutcomes :
         LET enc == encodings_to_try[encoding]
             after == AfterAttempt(outcome)
             last == encoding = Len(encodings_to_try)
         IN  /\ attempts' = [attempts EXCEPT ![file_path] =
                                Append(@, [encoding |-> enc, outcome |-> outcome])]
             /\ data_dict' = IF outcome = "ok" THEN PutTable(data_dict, file_path, enc)
                             ELSE data_dict
             /\ IF after = "continue" /\ ~last
                THEN /\ encoding' = encoding + 1
                     /\ UNCHANGED <<mpc, file_path, load_log>>
                ELSE /\ load_log' =
                          IF after = "continue"
                          THEN [load_log EXCEPT ![file_path] = "unable_any_encoding"]
                          ELSE IF after = "propagate"
                          THEN [load_log EXCEPT ![file_path] = "error_loading"]
                          ELSE load_log
                     /\ mpc' = "glob"
                     /\ file_path' = file_path + 1
                     /\ UNCHANGED encoding
    /\ UNCHANGED <<folder, filename, normalized, write_outcome, written, makedirs_ok,
                   finished>>
    /\ UNCHANGED bvars

\* load_files, lines 83-86 and 91-92
ReadExcel ==
    /\ mpc = "glob"
    /\ file_path <= Len(folder)
    /\ folder[file_path].is_file
    /\ folder[file_path].ext \in ExcelSuffixes
    /\ \E outcome \in {"ok", "Exception"} :
         /\ attempts' = [attempts EXCEPT ![file_path] =
                            Append(@, [encoding |-> "excel", outcome |-> outcome])]
         /\ data_dict' = IF outcome = "ok" THEN PutTable(data_dict, file_path, "excel")
                         ELSE data_dict
         /\ load_log' = IF outcome = "ok" THEN load_log
                        ELSE [load_log EXCEPT ![file_path] = "error_loading"]
    /\ file_path' = file_path + 1
    /\ UNCHANGED <<folder, mpc, encoding, filename, normalized, write_outcome, written,
                   makedirs_ok, finished>>
    /\ UNCHANGED bvars

\* load_files returns (line 95); main starts the loop over data_dict.items()
LoadDone ==
    /\ mpc = "glob"
    /\ file_path > Len(folder)
    /\ mpc' = "items"
    /\ filename' = 1
    /\ UNCHANGED <<folder, file_path, encoding, attempts, data_dict, load_log,
                   normalized, write_outcome, written, makedirs_ok, finished>>
    /\ UNCHANGED bvars

\* main, lines 195-205: bless_df returns a table, with or without an error logged
BlessCall ==
    /\ mpc = "items"
    /\ filename <= Len(data_dict)
    /\ \E outcome \in {"clean", "error_logged"} :
         normalized' = [normalized EXCEPT ![data_dict[filename].file] = outcome]
    /\ mpc' = "to_csv"
    /\ UNCHANGED <<folder, file_path, encoding, attempts, data_dict, load_log, filename,
                   write_outcome, written, makedirs_ok, finished>>
    /\ UNCHANGED bvars

\* main, lines 207-213
ToCsv ==
    /\ mpc = "to_csv"
    /\ \E outcome \in {"ok", "Exception"} :
         /\ write_outcome' = [write_outcome EXCEPT ![data_dict[filename].file] = outcome]
         /\ written' = IF outcome = "ok" THEN written \cup {data_dict[filename].file}
                       ELSE written
         /\ IF AfterToCsv(outcome) = "next"
            THEN /\ filename' = filename + 1
                 /\ mpc' = "items"
            ELSE /\ mpc' = "finish"
                 /\ UNCHANGED filename
    /\ UNCHANGED <<folder, file_path, encoding, attempts, data_dict, load_log,
                   normalized, makedirs_ok, finished>>
    /\ UNCHANGED bvars

\* the loop over data_dict.items() is exhausted
ItemsDone ==
    /\ mpc = "items"
    /\ filename > Len(data_dict)
    /\ mpc' = "finish"
    /\ UNCHANGED <<folder, file_path, encoding, attempts, data_dict, load_log, filename,
                   normalized, write_outcome, written, makedirs_ok, finished>>
    /\ UNCHANGED bvars

\* main, line 218
Finish ==
    /\ mpc = "finish"
    /\ finished' = TRUE
    /\ mpc' = "finished"
    /\ UNCHANGED <<folder, file_path, encoding, attempts, data_dict, load_log, filename,
                   normalized, write_outcome, written, makedirs_ok>>
    /\ UNCHANGED bvars

NextMain ==
    \/ MakeDirs
    \/ MakeDirsFails
    \/ SkipEntry
    \/ EnterCsv
    \/ ReadCsv
    \/ ReadExcel
    \/ LoadDone
    \/ BlessCall
    \/ ToCsv
    \/ ItemsDone
    \/ Finish

SpecMain == InitMain /\ [][NextMain]_vars

\* the program is sequential: a step that can be taken is taken
LiveSpecMain == InitMain /\ [][NextMain]_vars /\ WF_vars(NextMain)

(***************************************************************************)
(* Claims about load_files and main                                        *)
(***************************************************************************)
Accepted(f) == folder[f].is_file /\ folder[f].ext \in {".csv"} \cup ExcelSuffixes

\* the entry's own load succeeded
Loaded(f) == attempts[f] # <<>> /\ attempts[f][Len(attempts[f])].outcome = "ok"

InDict(f) == \E j \in 1..Len(data_dict) : data_dict[j].file = f

\* the loading of entry f is over
LoadOver(f) ==
    \/ mpc \in {"glob", "read_csv"} /\ file_path > f
    \/ mpc \in {"items", "to_csv"}
    \/ mpc \in {"finish", "finished"} /\ makedirs_ok

AllHandled ==
    \A f \in 1..Len(folder) :
        /\ Accepted(f) => attempts[f] # <<>>
        /\ Loaded(f) => (normalized[f] # "none" /\ write_outcome[f] # "none")
        /\ write_outcome[f] = "ok" => f \in written

\* C8: a load, normalization or write failure on one file prevents no other
\* accepted file from being loaded, normalized and written, and every run
\* ends by logging "Program finished".
C8_BatchCompletes ==
    /\ []((mpc = "finished" /\ makedirs_ok) => AllHandled)
    /\ <>finished

\* a file failed, and a later file was still loaded, normalized and written
C8_Witness ==
    /\ finished
    /\ \E f1, f2 \in 1..Len(folder) :
          /\ f1 < f2
          /\ \/ load_log[f1] # "none"
             \/ normalized[f1] = "error_logged"
             \/ write_outcome[f1] = "Exception"
          /\ Loaded(f2)
          /\ normalized[f2] # "none"
          /\ f2 \in written

IsCsv(f) == folder[f].is_file /\ folder[f].ext = ".csv"

\* C10 as stated: the encodings are tried in order, every failed attempt falls
\* through to the next encoding, nothing is tried after a success, and an error
\* is recorded for the file only after all four encodings have failed.
C10_SkipOnlyAfterAllFour ==
    \A f \in 1..Len(folder) :
        IsCsv(f) =>
            LET a == attempts[f]
                n == Len(a)
            IN  /\ \A j \in 1..n : a[j].encoding = encodings_to_try[j]
                /\ \A j \in 1..(n - 1) : a[j].outcome # "ok"
                /\ LoadOver(f) => (n > 0 /\ (a[n].outcome = "ok" \/ n = Len(encodings_to_try)))
                /\ load_log[f] # "none" =>
                      (n = Len(encodings_to_try) /\ \A j \in 1..n : a[j].outcome # "ok")

\* C10, amended: the encodings are tried in the order utf-8, latin1,
\* ISO-8859-1, utf-16; an attempt that fails with UnicodeDecodeError falls
\* through to the next encoding; the table is the one of the first attempt
\* that succeeds and nothing is tried after it; an error is recorded for the
\* file exactly when all four attempts failed with UnicodeDecodeError or an
\* attempt failed with another exception, which ends the loading at once.
C10_EncodingFallback ==
    \A f \in 1..Len(folder) :
        IsCsv(f) =>
            LET a == attempts[f]
                n == Len(a)
            IN  /\ n <= Len(encodings_to_try)
                /\ \A j \in 1..n : a[j].encoding = encodings_to_try[j]
                /\ \A j \in 1..(n - 1) : a[j].outcome = "UnicodeDecodeError"
                /\ InDict(f) <=> Loaded(f)
                /\ \A j \in 1..Len(data_dict) :
                      data_dict[j].file = f => data_dict[j].encoding = a[n].encoding
                /\ LoadOver(f) =>
                      /\ n > 0
                      /\ a[n].outcome = "UnicodeDecodeError" => n = Len(encodings_to_try)
                /\ load_log[f] # "none" <=>
                      /\ n > 0
                      /\ \/ a[n].outcome = "Exception"
                         \/ a[n].outcome = "UnicodeDecodeError" /\ n = Len(encodings_to_try)

\* a file loaded with the second encoding after the first failed to decode
C10_Witness ==
    /\ mpc = "finished"
    /\ \E f \in 1..Len(folder) :
          /\ IsCsv(f)
          /\ Len(attempts[f]) = 2
          /\ attempts[f][1].outcome = "UnicodeDecodeError"
          /\ attempts[f][2].outcome = "ok"
          /\ load_log[f] = "none"
          /\ \E j \in 1..Len(data_dict) :
                data_dict[j].file = f /\ data_dict[j].encoding = "latin1"

====
